---- MODULE Spec2Model ----
(***************************************************************************)
(* SimpleVector<Type> (simple_vector.h): a resizable array over an owned   *)
(* buffer ArrayPtr<Type>.  Two container objects are modelled so that      *)
(* copy/move construction, assignment and swap can be exercised.           *)
(*                                                                         *)
(* A container is a record                                                 *)
(*    live       the object exists (constructed, not yet destroyed)        *)
(*    size_      the field size_                                           *)
(*    capacity_  the field capacity_                                       *)
(*    alloc      number of element slots of the buffer items_ owns         *)
(*    items_     the memory cells starting at items_.Get(); the cells at   *)
(*               offsets >= alloc are NOT owned by the buffer (memory that *)
(*               follows it); they are tracked only up to capacity_, the   *)
(*               largest offset the code can touch.                        *)
(***************************************************************************)
EXTENDS Integers, Sequences, FiniteSets, TLC

VARIABLES elem, vecs, pre, last, run

vars == <<elem, vecs, pre, last, run>>

\* ---------------------------------------------------------------- bounds
MaxCells == 3    \* memory cells tracked over all containers together
MaxInit == 2     \* longest initializer_list
MaxPushes == 5   \* longest run of PushBack calls followed from its start

\* largest size / capacity argument a caller passes (a larger one would need
\* more cells than are tracked)
MaxN == MaxCells

Vecs == {1, 2}
ElemTypes == {"int", "X"}

\* Element values explored: int() = 0 and one other int; X() = X(5) and
\* X(0), which is also what X's move leaves behind.
ValuesOf(t) == IF t = "X" THEN {0, 5} ELSE {0, 1}

\* ---------------------------------------------------------- element type
\* Type(): int() is 0, X() is X(5).
DefaultOf(t) == IF t = "X" THEN 5 ELSE 0

\* The value left in the source of a move: X's move operations exchange the
\* source with 0, an int is left as it was.
MovedFrom(t, x) == IF t = "X" THEN 0 ELSE x

Copyable(t) == t # "X"

Max(a, b) == IF a >= b THEN a ELSE b
Min(a, b) == IF a <= b THEN a ELSE b

\* ------------------------------------------------------------- ArrayPtr
\* Contents of a freshly allocated buffer of n slots: default-constructed
\* for a class type, unspecified for int.
FreshBuffers(t, n) ==
    IF t = "X" THEN {[i \in 1..n |-> DefaultOf(t)]}
    ELSE [1..n -> ValuesOf(t)]

\* Whether ArrayPtr(n) can fail: only a request for storage can.
AllocCanFail(n) == n > 0

\* ------------------------------------------------------- element loops
\* dst[to] = std::move(src[from]) inside one block of memory
MoveCell(t, mem, from, to) ==
    LET val == mem[from + 1]
    IN  [[mem EXCEPT ![from + 1] = MovedFrom(t, val)] EXCEPT ![to + 1] = val]

\* std::copy(make_move_iterator(first), make_move_iterator(last), d) inside
\* one block of memory, lowest offset first
RECURSIVE MoveFwd(_, _, _, _, _)
MoveFwd(t, mem, first, lastIdx, d) ==
    IF first >= lastIdx THEN mem
    ELSE MoveFwd(t, MoveCell(t, mem, first, d), first + 1, lastIdx, d + 1)

\* std::copy_backward(make_move_iterator(first), make_move_iterator(last),
\* dLast) inside one block of memory, highest offset first
RECURSIVE MoveBwd(_, _, _, _, _)
MoveBwd(t, mem, first, lastIdx, dLast) ==
    IF first >= lastIdx THEN mem
    ELSE MoveBwd(t, MoveCell(t, mem, lastIdx - 1, dLast - 1),
                 first, lastIdx - 1, dLast - 1)

\* std::copy from the cells [first, last) of src into dst starting at d
\* (src and dst are different blocks; src is discarded by every caller)
RECURSIVE CopyInto(_, _, _, _, _)
CopyInto(src, dst, first, lastIdx, d) ==
    IF first >= lastIdx THEN dst
    ELSE CopyInto(src, [dst EXCEPT ![d + 1] = src[first + 1]],
                  first + 1, lastIdx, d + 1)

\* for (i = first; i < last; ++i) mem[i] = std::move(Type())
RECURSIVE FillDefault(_, _, _, _)
FillDefault(t, mem, first, lastIdx) ==
    IF first >= lastIdx THEN mem
    ELSE FillDefault(t, [mem EXCEPT ![first + 1] = DefaultOf(t)],
                     first + 1, lastIdx)

\* for (i = 0; i < size_; ++i) items_[i] = std::move(value): returns the
\* buffer; value is moved from again on every iteration
RECURSIVE FillMoved(_, _, _, _, _)
FillMoved(t, mem, i, n, value) ==
    IF i >= n THEN mem
    ELSE FillMoved(t, [mem EXCEPT ![i + 1] = value], i + 1, n,
                   MovedFrom(t, value))

\* ---------------------------------------------------------- containers
NoVec == [live |-> FALSE, size_ |-> 0, capacity_ |-> 0, alloc |-> 0,
          items_ |-> <<>>]

Vec(sz, cap, al, mem) ==
    [live |-> TRUE, size_ |-> sz, capacity_ |-> cap, alloc |-> al,
     items_ |-> mem]

\* Cells tracked for a container: the owned ones and those below capacity_.
Tracked(al, cap) == Max(al, cap)

\* ArrayPtr(ArrayPtr&&) / operator=(ArrayPtr&&): the destination takes the
\* block, the source is left holding none.
ArrayPtrMovedFrom == [alloc |-> 0, items_ |-> <<>>]

\* Memory following a buffer, seen when capacity_ runs past the buffer: the
\* cells the container did not own come into view with whatever they hold.
Extend(mem, len, junk) ==
    [i \in 1..Max(Len(mem), len) |->
        IF i <= Len(mem) THEN mem[i] ELSE junk[i - Len(mem)]]

\* Cells that stay in view after capacity_ has changed.
Trim(mem, al, cap) == SubSeq(mem, 1, Min(Len(mem), Tracked(al, cap)))

\* --------------------------------------------------------- constructors
\* SimpleVector() noexcept = default
DefaultCtor == Vec(0, 0, 0, <<>>)

\* SimpleVector(size_t size, Type&& value)
SizedMoveCtor(t, n, value, fresh) ==
    Vec(n, n, n, FillMoved(t, fresh, 0, n, value))

\* explicit SimpleVector(size_t size) : SimpleVector(size, std::move(Type()))
SizedCtor(t, n, fresh) == SizedMoveCtor(t, n, DefaultOf(t), fresh)

\* SimpleVector(size_t size, const Type& value): std::fill
SizedCopyCtor(n, value) == Vec(n, n, n, [i \in 1..n |-> value])

\* SimpleVector(std::initializer_list<Type> init)
InitListCtor(init) == Vec(Len(init), Len(init), Len(init), init)

\* a copy constructor sizing the new buffer by other.size_
CopyCtorTight(other, fresh) ==
    Vec(other.size_, other.size_, other.size_,
        CopyInto(other.items_, SubSeq(fresh, 1, other.size_), 0, other.size_, 0))

\* SimpleVector(const SimpleVector& other)
CopyCtor(other, fresh) ==
    Vec(other.size_, other.capacity_, other.capacity_,
        CopyInto(other.items_, fresh, 0, other.size_, 0))

\* MoveCtor with size_ read after other.size_ has been reset
MoveCtorLosesSize(other) ==
    Vec(0, 0, other.alloc, Trim(other.items_, other.alloc, 0))

\* SimpleVector(SimpleVector&& other): the constructed object
MoveCtor(other) ==
    Vec(other.size_, other.size_, other.alloc,
        Trim(other.items_, other.alloc, other.size_))

\* SimpleVector(SimpleVector&& other) / operator=(SimpleVector&&): what is
\* left of other
MovedFromVec == Vec(0, 0, ArrayPtrMovedFrom.alloc, ArrayPtrMovedFrom.items_)

\* ------------------------------------------------------------- mutators
\* Reserve adopting the new buffer without transferring the elements
ReserveNoCopy(t, r, c, fresh) ==
    IF c > r.capacity_ THEN Vec(r.size_, c, c, fresh) ELSE r

\* void Reserve(size_t new_capacity), allocation succeeding
Reserve(t, r, c, fresh) ==
    IF c > r.capacity_
    THEN Vec(r.size_, c, c, CopyInto(r.items_, fresh, 0, r.size_, 0))
    ELSE r

\* Reserve assigning capacity_ before it allocates
ReserveThrowsLate(r, c) == [r EXCEPT !.capacity_ = c]

\* void Reserve(size_t new_capacity), ArrayPtr<Type> temp(new_capacity) throws
ReserveThrows(r, c) == r

\* Resize growing to exactly the size asked for
ResizeCapacityExact(r, n) == n

\* Resize growing by half the capacity instead of doubling it
ResizeCapacityByHalf(r, n) == Max(n, r.capacity_ + (r.capacity_ \div 2))

\* std::max(new_size, capacity_ * 2)
ResizeCapacity(r, n) == Max(n, r.capacity_ * 2)

\* Resize growing in place without writing Type() into the exposed cells
ResizeNoFill(t, r, n, fresh) ==
    IF n <= r.capacity_
    THEN [r EXCEPT !.size_ = n]
    ELSE LET cap == ResizeCapacity(r, n)
             moved == CopyInto(r.items_, fresh, 0, r.size_, 0)
         IN  Vec(n, cap, cap, FillDefault(t, moved, r.size_, n))

\* void Resize(size_t new_size), allocation succeeding
Resize(t, r, n, fresh) ==
    IF n <= r.capacity_
    THEN IF n <= r.size_
         THEN [r EXCEPT !.size_ = n]
         ELSE [r EXCEPT !.items_ = FillDefault(t, r.items_, r.size_, n),
                        !.size_ = n]
    ELSE LET cap == ResizeCapacity(r, n)
             moved == CopyInto(r.items_, fresh, 0, r.size_, 0)
         IN  Vec(n, cap, cap, FillDefault(t, moved, r.size_, n))

\* void Resize(size_t new_size), ArrayPtr<Type> temp(capacity_) throws:
\* capacity_ has already been assigned
ResizeThrows(r, n, junk) ==
    LET cap == ResizeCapacity(r, n)
    IN  [r EXCEPT !.capacity_ = cap,
                  !.items_ = Extend(r.items_, Tracked(r.alloc, cap), junk)]

\* PushBack incrementing size_ after Resize as well (the else is missing)
PushBackCountsTwice(t, r, item, fresh) ==
    LET index == r.size_
        grown == IF r.size_ = r.capacity_
                 THEN Resize(t, r, r.capacity_ + 1, fresh)
                 ELSE r
    IN  [grown EXCEPT !.items_[index + 1] = item, !.size_ = grown.size_ + 1]

\* PushBack storing the item in place without ++size_
PushBackKeepsSize(t, r, item, fresh) ==
    LET index == r.size_
        grown == IF r.size_ = r.capacity_
                 THEN Resize(t, r, r.capacity_ + 1, fresh)
                 ELSE r
    IN  [grown EXCEPT !.items_[index + 1] = item]

\* void PushBack(const Type&) / void PushBack(Type&&), allocation succeeding
PushBack(t, r, item, fresh) ==
    LET index == r.size_
        grown == IF r.size_ = r.capacity_
                 THEN Resize(t, r, r.capacity_ + 1, fresh)
                 ELSE [r EXCEPT !.size_ = r.size_ + 1]
    IN  [grown EXCEPT !.items_[index + 1] = item]

\* PushBack when Resize(capacity_ + 1) throws
PushBackThrows(r, junk) == ResizeThrows(r, r.capacity_ + 1, junk)

\* Insert growing a full container by one cell
InsertCapacityPlusOne(r) == r.capacity_ + 1

\* std::max(capacity_ * 2, static_cast<size_t>(1))
InsertCapacity(r) == Max(r.capacity_ * 2, 1)

\* Insert making room in place with std::copy, lowest offset first
InsertShiftsForward(t, r, index, value, fresh) ==
    IF r.size_ < r.capacity_
    THEN LET shifted == MoveFwd(t, r.items_, index, r.size_, index + 1)
         IN  [r EXCEPT !.items_ = [shifted EXCEPT ![index + 1] = value],
                       !.size_ = r.size_ + 1]
    ELSE LET temp == SizedCtor(t, InsertCapacity(r), fresh)
             head == CopyInto(r.items_, temp.items_, 0, index, 0)
             mid  == [head EXCEPT ![index + 1] = value]
             tail == CopyInto(r.items_, mid, index, r.size_, index + 1)
         IN  Vec(r.size_ + 1, temp.capacity_, temp.alloc, tail)

\* Iterator Insert(ConstIterator pos, const Type&) / (ConstIterator, Type&&),
\* allocation succeeding; index = pos - begin()
Insert(t, r, index, value, fresh) ==
    IF r.size_ < r.capacity_
    THEN LET shifted == MoveBwd(t, r.items_, index, r.size_, r.size_ + 1)
         IN  [r EXCEPT !.items_ = [shifted EXCEPT ![index + 1] = value],
                       !.size_ = r.size_ + 1]
    ELSE LET temp == SizedCtor(t, InsertCapacity(r), fresh)
             head == CopyInto(r.items_, temp.items_, 0, index, 0)
             mid  == [head EXCEPT ![index + 1] = value]
             tail == CopyInto(r.items_, mid, index, r.size_, index + 1)
         IN  Vec(r.size_ + 1, temp.capacity_, temp.alloc, tail)

\* Insert: return begin() + index, as an offset from begin()
InsertReturns(index) == index

\* Insert when the construction of temp throws
InsertThrows(r) == r

\* PopBack without the IsEmpty() test (-1 stands for the size_t that 0 - 1
\* wraps to)
PopBackUnchecked(r) == [r EXCEPT !.size_ = r.size_ - 1]

\* void PopBack() noexcept
PopBack(r) == IF r.size_ # 0 THEN [r EXCEPT !.size_ = r.size_ - 1] ELSE r

\* Erase closing the gap from the element at pos instead of the one after it
EraseFromPos(t, r, index) ==
    [r EXCEPT !.items_ = MoveFwd(t, r.items_, index, r.size_, index),
              !.size_ = r.size_ - 1]

\* Iterator Erase(ConstIterator pos); index = pos - begin()
Erase(t, r, index) ==
    [r EXCEPT !.items_ = MoveFwd(t, r.items_, index + 1, r.size_, index),
              !.size_ = r.size_ - 1]

\* Erase: return begin() + index, as an offset from begin()
EraseReturns(index) == index

\* void Clear() noexcept
Clear(r) == [r EXCEPT !.size_ = 0]

\* void swap(SimpleVector& other) noexcept: <<this, other>> afterwards
Swap(a, b) == <<b, a>>

\* copy-assignment building the copy and never swapping with it
CopyAssignNoSwap(a, rhs, fresh) == a

\* operator=(const SimpleVector& rhs) with this != &rhs, copy succeeding:
\* temp(rhs); swap(temp)
CopyAssign(a, rhs, fresh) == Swap(a, CopyCtor(rhs, fresh))[1]

\* move-assignment taking the capacity from the size, as the move
\* constructor does
MoveAssignCapacityFromSize(a, rhs) ==
    <<Vec(rhs.size_, rhs.size_, rhs.alloc,
          Trim(rhs.items_, rhs.alloc, rhs.size_)), MovedFromVec>>

\* operator=(SimpleVector&& rhs) with this != &rhs: <<this, rhs>> afterwards
MoveAssign(a, rhs) ==
    <<Vec(rhs.size_, rhs.capacity_, rhs.alloc, rhs.items_), MovedFromVec>>

\* --------------------------------------------------------------- access
\* the logical sequence: the cells [begin(), end())
Elems(r) == SubSeq(r.items_, 1, r.size_)

\* An access to offsets [0, upto) leaves the owned buffer.
Outside(r, upto) == upto > r.alloc

\* Type& operator[](size_t index): items_[index]
Subscript(r, index) == r.items_[index + 1]

\* At testing the index against capacity_
AtThrowsBeyondCapacity(r, index) == index >= r.capacity_

\* At: if (index >= size_) throw std::out_of_range
AtThrows(r, index) == index >= r.size_

\* Type& At(size_t index) when it does not throw: items_[index]
At(r, index) == r.items_[index + 1]

\* ---------------------------------------------------------- comparison
\* operator== and operator< exist for int; X has neither
Comparable(t) == t = "int"

\* the loop of std::equal over [i, n) of both ranges
RECURSIVE EqualRange(_, _, _, _)
EqualRange(a, b, i, n) ==
    IF i >= n THEN TRUE
    ELSE IF a[i + 1] # b[i + 1] THEN FALSE
    ELSE EqualRange(a, b, i + 1, n)

\* std::equal comparing the common prefix without comparing the lengths
StdEqualNoLength(lhs, rhs) ==
    EqualRange(lhs.items_, rhs.items_, 0, Min(lhs.size_, rhs.size_))

\* std::equal(lhs.begin(), lhs.end(), rhs.begin(), rhs.end()): with random
\* access iterators the distances are compared first
StdEqual(lhs, rhs) ==
    IF lhs.size_ # rhs.size_ THEN FALSE
    ELSE EqualRange(lhs.items_, rhs.items_, 0, lhs.size_)

\* std::lexicographical_compare(lhs.begin(), lhs.end(), rhs.begin(),
\* rhs.end()) from offset i on
RECURSIVE LexCompare(_, _, _)
LexCompare(lhs, rhs, i) ==
    IF i >= lhs.size_ \/ i >= rhs.size_
    THEN i >= lhs.size_ /\ i < rhs.size_
    ELSE IF lhs.items_[i + 1] < rhs.items_[i + 1] THEN TRUE
    ELSE IF rhs.items_[i + 1] < lhs.items_[i + 1] THEN FALSE
    ELSE LexCompare(lhs, rhs, i + 1)

\* operator==
OpEq(lhs, rhs) == StdEqual(lhs, rhs)

\* operator!=: !(lhs == rhs)
OpNe(lhs, rhs) == ~OpEq(lhs, rhs)

\* operator<
OpLt(lhs, rhs) == LexCompare(lhs, rhs, 0)

\* operator<= negating lhs < rhs
OpLeSameOrder(lhs, rhs) == ~OpLt(lhs, rhs)

\* operator<=: !(rhs < lhs)
OpLe(lhs, rhs) == ~OpLt(rhs, lhs)

\* operator>: rhs < lhs
OpGt(lhs, rhs) == OpLt(rhs, lhs)

\* operator>=: !(rhs > lhs)
OpGe(lhs, rhs) == ~OpGt(rhs, lhs)

\* the operators that return true for lhs, rhs
Comparisons(lhs, rhs) ==
    (IF OpEq(lhs, rhs) THEN {"=="} ELSE {})
        \cup (IF OpNe(lhs, rhs) THEN {"!="} ELSE {})
        \cup (IF OpLt(lhs, rhs) THEN {"<"} ELSE {})
        \cup (IF OpLe(lhs, rhs) THEN {"<="} ELSE {})
        \cup (IF OpGt(lhs, rhs) THEN {">"} ELSE {})
        \cup (IF OpGe(lhs, rhs) THEN {">="} ELSE {})

\* ---------------------------------------------------------------- state
\* elem  the element type the containers are instantiated with
\* vecs  the container objects
\* last  the call that has just ended and not yet been returned from:
\*       operation, object(s), arguments, outcome, and whether it touched
\*       memory outside the buffer it owns; NoCall between calls
\* pre   vecs when that call began
\* run   the PushBack calls made on container 1 since it was constructed
\*       empty, while nothing but PushBack has been called on it since the
\*       first of them and every call has returned normally: the values
\*       pushed, how many of the calls reallocated, and how many elements
\*       those reallocations transferred
\*       ret is what the call returned (an element, or an iterator as its
\*       offset from begin()), cmp the comparison operators that returned
\*       true
Call(op, v, w, n, x, res, oob) ==
    [op |-> op, v |-> v, w |-> w, n |-> n, x |-> x, res |-> res, oob |-> oob,
     ret |-> 0, cmp |-> {}]

TotalCells(vs) == Len(vs[1].items_) + Len(vs[2].items_)

Bounded(vs) == TotalCells(vs) <= MaxCells

NoCall == Call("none", 0, 0, 0, 0, "ok", FALSE)
NoVecs == [v \in Vecs |-> NoVec]

\* no call is waiting to be returned from
Idle == last = NoCall

\* no run of PushBack calls is being followed
NoRun == [active |-> FALSE, pushed |-> <<>>, reallocs |-> 0, transfers |-> 0]

Step(vs, call) ==
    /\ Bounded(vs)
    /\ vecs' = vs
    /\ pre' = vecs
    /\ last' = call
    /\ UNCHANGED <<elem, run>>

\* the call returned value
Returning(call, value) == [call EXCEPT !.ret = value]

Set1(v, r) == [vecs EXCEPT ![v] = r]
Set2(v, r, w, q) == [vecs EXCEPT ![v] = r, ![w] = q]

\* SimpleVector<int> or SimpleVector<X>, no object constructed yet
Init ==
    /\ elem \in ElemTypes
    /\ vecs = NoVecs
    /\ pre = NoVecs
    /\ last = NoCall
    /\ run = NoRun

\* ------------------------------------------------- construction actions
ConstructDefault(v) ==
    /\ Idle
    /\ ~vecs[v].live
    /\ Step(Set1(v, DefaultCtor), Call("DefaultCtor", v, 0, 0, 0, "ok", FALSE))

ConstructSized(v) ==
    /\ Idle
    /\ ~vecs[v].live
    /\ \E n \in 0..MaxN :
          \/ \E fresh \in FreshBuffers(elem, n) :
                Step(Set1(v, SizedCtor(elem, n, fresh)),
                     Call("SizedCtor", v, 0, n, 0, "ok", FALSE))
          \/ /\ AllocCanFail(n)
             /\ Step(vecs, Call("SizedCtor", v, 0, n, 0, "bad_alloc", FALSE))

ConstructFilled(v) ==
    /\ Idle
    /\ ~vecs[v].live
    /\ \E n \in 0..MaxN, x \in ValuesOf(elem) :
          \/ \E fresh \in FreshBuffers(elem, n) :
                Step(Set1(v, SizedMoveCtor(elem, n, x, fresh)),
                     Call("SizedMoveCtor", v, 0, n, x, "ok", FALSE))
          \/ /\ AllocCanFail(n)
             /\ Step(vecs, Call("SizedMoveCtor", v, 0, n, x, "bad_alloc", FALSE))

ConstructFilledCopy(v) ==
    /\ Idle
    /\ ~vecs[v].live
    /\ Copyable(elem)
    /\ \E n \in 0..MaxN, x \in ValuesOf(elem) :
          \/ Step(Set1(v, SizedCopyCtor(n, x)),
                  Call("SizedCopyCtor", v, 0, n, x, "ok", FALSE))
          \/ /\ AllocCanFail(n)
             /\ Step(vecs, Call("SizedCopyCtor", v, 0, n, x, "bad_alloc", FALSE))

ConstructReserved(v) ==
    /\ Idle
    /\ ~vecs[v].live
    /\ \E c \in 0..MaxN :
          \/ \E fresh \in FreshBuffers(elem, c) :
                Step(Set1(v, Reserve(elem, DefaultCtor, c, fresh)),
                     Call("ReserveCtor", v, 0, c, 0, "ok", FALSE))
          \/ /\ AllocCanFail(c)
             /\ Step(vecs, Call("ReserveCtor", v, 0, c, 0, "bad_alloc", FALSE))

InitLists == UNION {[1..k -> ValuesOf(elem)] : k \in 0..MaxInit}

ConstructInitList(v) ==
    /\ Idle
    /\ ~vecs[v].live
    /\ Copyable(elem)
    /\ \E init \in InitLists :
          \/ Step(Set1(v, InitListCtor(init)),
                  Call("InitListCtor", v, 0, Len(init), 0, "ok", FALSE))
          \/ /\ AllocCanFail(Len(init))
             /\ Step(vecs, Call("InitListCtor", v, 0, Len(init), 0,
                                "bad_alloc", FALSE))

ConstructCopy(v, w) ==
    /\ Idle
    /\ ~vecs[v].live
    /\ vecs[w].live
    /\ Copyable(elem)
    /\ LET oob == Outside(vecs[w], vecs[w].size_)
       IN  \/ \E fresh \in FreshBuffers(elem, vecs[w].capacity_) :
                 Step(Set1(v, CopyCtor(vecs[w], fresh)),
                      Call("CopyCtor", v, w, 0, 0, "ok", oob))
           \/ /\ AllocCanFail(vecs[w].capacity_)
              /\ Step(vecs, Call("CopyCtor", v, w, 0, 0, "bad_alloc", FALSE))

ConstructMove(v, w) ==
    /\ Idle
    /\ ~vecs[v].live
    /\ vecs[w].live
    /\ Step(Set2(v, MoveCtor(vecs[w]), w, MovedFromVec),
            Call("MoveCtor", v, w, 0, 0, "ok", FALSE))

\* ~SimpleVector(): the object's scope ends
Destroy(v) ==
    /\ Idle
    /\ vecs[v].live
    /\ Step(Set1(v, NoVec), Call("Destroy", v, 0, 0, 0, "ok", FALSE))

\* ------------------------------------------------------ mutator actions
DoReserve(v) ==
    /\ Idle
    /\ vecs[v].live
    /\ \E c \in 0..MaxN :
          LET r == vecs[v]
              grows == c > r.capacity_
          IN  \/ \E fresh \in FreshBuffers(elem, c) :
                    Step(Set1(v, Reserve(elem, r, c, fresh)),
                         Call("Reserve", v, 0, c, 0, "ok",
                              grows /\ Outside(r, r.size_)))
              \/ /\ grows /\ AllocCanFail(c)
                 /\ Step(Set1(v, ReserveThrows(r, c)),
                         Call("Reserve", v, 0, c, 0, "bad_alloc", FALSE))

\* what the cells between the end of the buffer and offset cap hold
JunkCells(r, cap) ==
    [1..(Tracked(r.alloc, cap) - Len(r.items_)) -> ValuesOf(elem)]

DoResize(v) ==
    /\ Idle
    /\ vecs[v].live
    /\ \E n \in 0..MaxN :
          LET r == vecs[v]
              grows == n > r.capacity_
              cap == IF grows THEN ResizeCapacity(r, n) ELSE 0
              touched == IF grows THEN r.size_ ELSE n
          IN  \/ \E fresh \in FreshBuffers(elem, cap) :
                    Step(Set1(v, Resize(elem, r, n, fresh)),
                         Call("Resize", v, 0, n, 0, "ok", Outside(r, touched)))
              \/ /\ grows /\ AllocCanFail(cap)
                 /\ \E junk \in JunkCells(r, cap) :
                       Step(Set1(v, ResizeThrows(r, n, junk)),
                            Call("Resize", v, 0, n, 0, "bad_alloc", FALSE))

DoPushBack(v) ==
    /\ Idle
    /\ vecs[v].live
    /\ \E x \in ValuesOf(elem) :
          LET r == vecs[v]
              grows == r.size_ = r.capacity_
              cap == IF grows THEN ResizeCapacity(r, r.capacity_ + 1) ELSE 0
              touched == IF grows THEN r.size_ ELSE r.size_ + 1
          IN  \/ \E fresh \in FreshBuffers(elem, cap) :
                    Step(Set1(v, PushBack(elem, r, x, fresh)),
                         Call("PushBack", v, 0, 0, x, "ok", Outside(r, touched)))
              \/ /\ grows /\ AllocCanFail(cap)
                 /\ \E junk \in JunkCells(r, cap) :
                       Step(Set1(v, PushBackThrows(r, junk)),
                            Call("PushBack", v, 0, 0, x, "bad_alloc", FALSE))

DoInsert(v) ==
    /\ Idle
    /\ vecs[v].live
    /\ \E index \in 0..vecs[v].size_, x \in ValuesOf(elem) :
          LET r == vecs[v]
              grows == ~(r.size_ < r.capacity_)
              cap == IF grows THEN InsertCapacity(r) ELSE 0
              touched == IF grows THEN r.size_ ELSE r.size_ + 1
          IN  \/ \E fresh \in FreshBuffers(elem, cap) :
                    Step(Set1(v, Insert(elem, r, index, x, fresh)),
                         Returning(Call("Insert", v, 0, index, x, "ok",
                                        Outside(r, touched)),
                                   InsertReturns(index)))
              \/ /\ grows /\ AllocCanFail(cap)
                 /\ Step(Set1(v, InsertThrows(r)),
                         Call("Insert", v, 0, index, x, "bad_alloc", FALSE))

DoPopBack(v) ==
    /\ Idle
    /\ vecs[v].live
    /\ Step(Set1(v, PopBack(vecs[v])), Call("PopBack", v, 0, 0, 0, "ok", FALSE))

DoErase(v) ==
    /\ Idle
    /\ vecs[v].live
    /\ \E index \in 0..(vecs[v].size_ - 1) :
          Step(Set1(v, Erase(elem, vecs[v], index)),
               Returning(Call("Erase", v, 0, index, 0, "ok",
                              Outside(vecs[v], vecs[v].size_)),
                         EraseReturns(index)))

DoClear(v) ==
    /\ Idle
    /\ vecs[v].live
    /\ Step(Set1(v, Clear(vecs[v])), Call("Clear", v, 0, 0, 0, "ok", FALSE))

DoSwap(v, w) ==
    /\ Idle
    /\ vecs[v].live /\ vecs[w].live
    /\ LET s == Swap(vecs[v], vecs[w])
       IN  Step([u \in Vecs |-> IF u = w THEN s[2] ELSE IF u = v THEN s[1]
                                ELSE vecs[u]],
                Call("swap", v, w, 0, 0, "ok", FALSE))

DoCopyAssign(v, w) ==
    /\ Idle
    /\ vecs[v].live /\ vecs[w].live
    /\ Copyable(elem)
    /\ IF v = w
       THEN Step(vecs, Call("CopyAssign", v, w, 0, 0, "ok", FALSE))
       ELSE \/ \E fresh \in FreshBuffers(elem, vecs[w].capacity_) :
                  Step(Set1(v, CopyAssign(vecs[v], vecs[w], fresh)),
                       Call("CopyAssign", v, w, 0, 0, "ok",
                            Outside(vecs[w], vecs[w].size_)))
            \/ /\ AllocCanFail(vecs[w].capacity_)
               /\ Step(vecs, Call("CopyAssign", v, w, 0, 0, "bad_alloc", FALSE))

DoMoveAssign(v, w) ==
    /\ Idle
    /\ vecs[v].live /\ vecs[w].live
    /\ IF v = w
       THEN Step(vecs, Call("MoveAssign", v, w, 0, 0, "ok", FALSE))
       ELSE LET m == MoveAssign(vecs[v], vecs[w])
            IN  Step(Set2(v, m[1], w, m[2]),
                     Call("MoveAssign", v, w, 0, 0, "ok", FALSE))

\* ------------------------------------------------------ reading actions
DoAt(v) ==
    /\ Idle
    /\ vecs[v].live
    /\ \E index \in 0..MaxN :
          IF AtThrows(vecs[v], index)
          THEN Step(vecs, Call("At", v, 0, index, 0, "out_of_range", FALSE))
          ELSE Step(vecs, Returning(Call("At", v, 0, index, 0, "ok",
                                         Outside(vecs[v], index + 1)),
                                    At(vecs[v], index)))

DoCompare(v, w) ==
    /\ Idle
    /\ vecs[v].live
    /\ vecs[w].live
    /\ Comparable(elem)
    /\ Step(vecs, [Call("Compare", v, w, 0, 0, "ok",
                        \/ Outside(vecs[v], vecs[v].size_)
                        \/ Outside(vecs[w], vecs[w].size_))
                     EXCEPT !.cmp = Comparisons(vecs[v], vecs[w])])

\* ------------------------------------------------------- the environment
\* Memory that follows a buffer belongs to somebody else and changes under
\* the container's feet.
Clobber(v) ==
    /\ Idle
    /\ vecs[v].live
    /\ \E i \in (vecs[v].alloc + 1)..Len(vecs[v].items_), x \in ValuesOf(elem) :
          /\ vecs[v].items_[i] # x
          /\ Step(Set1(v, [vecs[v] EXCEPT !.items_[i] = x]),
                  Call("Clobber", v, 0, i - 1, x, "ok", FALSE))

\* The call returns and the caller goes on.
Return ==
    /\ last # NoCall
    /\ last' = NoCall
    /\ pre' = NoVecs
    /\ UNCHANGED <<elem, vecs, run>>

\* A call that touched memory outside the owned buffer may also end the
\* process instead of returning.
Abort ==
    /\ last.oob
    /\ vecs' = NoVecs
    /\ pre' = NoVecs
    /\ last' = NoCall
    /\ UNCHANGED <<elem, run>>

Next ==
    \/ \E v \in Vecs : ConstructDefault(v)
    \/ \E v \in Vecs : ConstructSized(v)
    \/ \E v \in Vecs : ConstructFilled(v)
    \/ \E v \in Vecs : ConstructFilledCopy(v)
    \/ \E v \in Vecs : ConstructReserved(v)
    \/ \E v \in Vecs : ConstructInitList(v)
    \/ \E v \in Vecs, w \in Vecs : ConstructCopy(v, w)
    \/ \E v \in Vecs, w \in Vecs : ConstructMove(v, w)
    \/ \E v \in Vecs : Destroy(v)
    \/ \E v \in Vecs : DoReserve(v)
    \/ \E v \in Vecs : DoResize(v)
    \/ \E v \in Vecs : DoPushBack(v)
    \/ \E v \in Vecs : DoInsert(v)
    \/ \E v \in Vecs : DoPopBack(v)
    \/ \E v \in Vecs : DoErase(v)
    \/ \E v \in Vecs : DoClear(v)
    \/ \E v \in Vecs : \E w \in Vecs \ {v} : DoSwap(v, w)
    \/ \E v \in Vecs, w \in Vecs : DoCopyAssign(v, w)
    \/ \E v \in Vecs, w \in Vecs : DoMoveAssign(v, w)
    \/ \E v \in Vecs : DoAt(v)
    \/ \E v \in Vecs, w \in Vecs : DoCompare(v, w)
    \/ \E v \in Vecs : Clobber(v)
    \/ Return
    \/ Abort

Spec == Init /\ [][Next]_vars

\* ------------------------------------------ a run of PushBack calls
\* SimpleVector<Type> v; then optionally v.Reserve(c); then v.PushBack(x)
\* over and over, as the tests of PushBack and Reserve do.

\* PushBack reallocates: size_ == capacity_, so Resize(capacity_ + 1) takes
\* its new_size > capacity_ branch
PushBackReallocates(r) == r.size_ = r.capacity_

\* the elements Resize moves into the new buffer: [begin(), end())
ResizeTransfers(r) == r.size_

RunStep(vs, call, rn) ==
    /\ vecs' = vs
    /\ pre' = vecs
    /\ last' = call
    /\ run' = rn
    /\ UNCHANGED elem

RunConstruct ==
    /\ Idle
    /\ ~vecs[1].live
    /\ ~run.active
    /\ run.pushed = <<>>
    /\ RunStep(Set1(1, DefaultCtor), Call("DefaultCtor", 1, 0, 0, 0, "ok", FALSE),
               [NoRun EXCEPT !.active = TRUE])

RunReserve ==
    /\ Idle
    /\ run.active
    /\ run.pushed = <<>>
    /\ vecs[1].capacity_ = 0
    /\ \E c \in 1..MaxN : \E fresh \in FreshBuffers(elem, c) :
          RunStep(Set1(1, Reserve(elem, vecs[1], c, fresh)),
                  Call("Reserve", 1, 0, c, 0, "ok", FALSE), run)

RunPushBack ==
    /\ Idle
    /\ run.active
    /\ Len(run.pushed) < MaxPushes
    /\ \E x \in ValuesOf(elem) :
          LET r == vecs[1]
              grows == PushBackReallocates(r)
              cap == IF grows THEN ResizeCapacity(r, r.capacity_ + 1) ELSE 0
              moved == IF grows THEN <<1, ResizeTransfers(r)>> ELSE <<0, 0>>
          IN  \E fresh \in FreshBuffers(elem, cap) :
                 RunStep(Set1(1, PushBack(elem, r, x, fresh)),
                         Call("PushBack", 1, 0, 0, x, "ok", FALSE),
                         [run EXCEPT
                            !.pushed = Append(run.pushed, x),
                            !.reallocs = run.reallocs + moved[1],
                            !.transfers = run.transfers + moved[2]])

\* a PushBack that throws ends the run
RunPushBackThrows ==
    /\ Idle
    /\ run.active
    /\ Len(run.pushed) < MaxPushes
    /\ \E x \in ValuesOf(elem) :
          LET r == vecs[1]
              cap == ResizeCapacity(r, r.capacity_ + 1)
          IN  /\ PushBackReallocates(r)
              /\ AllocCanFail(cap)
              /\ \E junk \in JunkCells(r, cap) :
                    RunStep(Set1(1, PushBackThrows(r, junk)),
                            Call("PushBack", 1, 0, 0, x, "bad_alloc", FALSE),
                            [run EXCEPT !.active = FALSE])

NextPush ==
    \/ RunConstruct
    \/ RunReserve
    \/ RunPushBack
    \/ RunPushBackThrows
    \/ Return

SpecPush == Init /\ [][NextPush]_vars

\* ------------------------- a run of PushBack calls closed by another call
\* largest size passed to the closing Resize
MaxResize == MaxPushes + 1

\* v.Resize(n) after the pushes; the run is not followed further
RunResize ==
    /\ Idle
    /\ run.active
    /\ Len(run.pushed) < MaxPushes
    /\ \E n \in 0..MaxResize :
          LET r == vecs[1]
              grows == n > r.capacity_
              cap == IF grows THEN ResizeCapacity(r, n) ELSE 0
              done == [run EXCEPT !.active = FALSE]
          IN  \/ \E fresh \in FreshBuffers(elem, cap) :
                    RunStep(Set1(1, Resize(elem, r, n, fresh)),
                            Call("Resize", 1, 0, n, 0, "ok", FALSE), done)
              \/ /\ grows /\ AllocCanFail(cap)
                 /\ \E junk \in JunkCells(r, cap) :
                       RunStep(Set1(1, ResizeThrows(r, n, junk)),
                               Call("Resize", 1, 0, n, 0, "bad_alloc", FALSE),
                               done)

\* v.Insert(v.begin() + index, x) after the pushes; the run is not followed
\* further
RunInsert ==
    /\ Idle
    /\ run.active
    /\ Len(run.pushed) < MaxPushes
    /\ \E index \in 0..vecs[1].size_, x \in ValuesOf(elem) :
          LET r == vecs[1]
              grows == ~(r.size_ < r.capacity_)
              cap == IF grows THEN InsertCapacity(r) ELSE 0
              done == [run EXCEPT !.active = FALSE]
          IN  \/ \E fresh \in FreshBuffers(elem, cap) :
                    RunStep(Set1(1, Insert(elem, r, index, x, fresh)),
                            Returning(Call("Insert", 1, 0, index, x, "ok", FALSE),
                                      InsertReturns(index)),
                            done)
              \/ /\ grows /\ AllocCanFail(cap)
                 /\ RunStep(Set1(1, InsertThrows(r)),
                            Call("Insert", 1, 0, index, x, "bad_alloc", FALSE),
                            done)

NextGrow ==
    \/ RunConstruct
    \/ RunReserve
    \/ RunPushBack
    \/ RunPushBackThrows
    \/ RunResize
    \/ RunInsert
    \/ Return

SpecGrow == Init /\ [][NextGrow]_vars

\* ------------------------------------------------------------ typing
TypeOK ==
    /\ elem \in ElemTypes
    /\ \A v \in Vecs :
          /\ vecs[v].live \in BOOLEAN
          /\ vecs[v].size_ \in 0..MaxCells
          /\ vecs[v].capacity_ \in 0..MaxCells
          /\ vecs[v].alloc \in 0..MaxCells
          /\ Len(vecs[v].items_) = Tracked(vecs[v].alloc, vecs[v].capacity_)
          /\ \A i \in 1..Len(vecs[v].items_) : vecs[v].items_[i] \in ValuesOf(elem)
          /\ ~vecs[v].live => vecs[v] = NoVec

\* =========================================================== properties
\* the object a call was made on, the other object it named, before and after
Before(v) == pre[v]
After(v) == vecs[v]

Called(op, res) == last.op = op /\ last.res = res

\* size, capacity and logical sequence of b are those of a
SameVisible(a, b) ==
    /\ a.size_ = b.size_
    /\ a.capacity_ = b.capacity_
    /\ Elems(a) = Elems(b)

\* ------------------------------------------------------------------ C1
\* C1: in every reachable state, calls that ended with an allocation failure
\* included, every live container has size_ <= capacity_.
C1_SizeWithinCapacity ==
    \A v \in Vecs : vecs[v].live => vecs[v].size_ <= vecs[v].capacity_

\* a growth call has just failed on a non-empty container
C1_Witness ==
    /\ last.op \in {"Resize", "PushBack"}
    /\ last.res = "bad_alloc"
    /\ After(last.v).size_ > 0
    /\ After(last.v).size_ <= After(last.v).capacity_

\* ------------------------------------------------------------------ C2
\* C2: in every reachable state the recorded capacity_ of a live container
\* equals the number of slots of the buffer it owns.
C2_CapacityIsAllocated ==
    \A v \in Vecs : vecs[v].live => vecs[v].capacity_ = vecs[v].alloc

\* ------------------------------------------------------------------ C3
\* C3: when the allocation fails in Resize(n) with n > capacity, or in
\* PushBack on a full container, size, capacity and logical sequence are
\* what they were before the call.
C3_GrowthFailureChangesNothing ==
    (last.op \in {"Resize", "PushBack"} /\ last.res = "bad_alloc")
        => SameVisible(After(last.v), Before(last.v))

\* ------------------------------------------------------------------ C4
\* C4: when the allocation fails in Reserve(c) with c > capacity, or in
\* Insert on a full container, size, capacity and logical sequence are what
\* they were before the call, and no cell of the old buffer has changed.
C4_ReserveInsertFailureChangesNothing ==
    (last.op \in {"Reserve", "Insert"} /\ last.res = "bad_alloc")
        => /\ SameVisible(After(last.v), Before(last.v))
           /\ After(last.v).items_ = Before(last.v).items_
           /\ After(last.v).alloc = Before(last.v).alloc

\* Insert has just failed on a full, non-empty container
C4_Witness ==
    /\ Called("Insert", "bad_alloc")
    /\ Before(last.v).size_ > 0
    /\ Before(last.v).size_ = Before(last.v).capacity_

\* ------------------------------------------------------------------ C5
\* C5: copy-assignment a = b: if the copy of b cannot be built, a is
\* unchanged; if it can, a has b's size and logical sequence and b is
\* unchanged; a = a changes nothing.
C5_CopyAssignStrong ==
    /\ Called("CopyAssign", "bad_alloc") => vecs = pre
    /\ (Called("CopyAssign", "ok") /\ last.v # last.w)
          => /\ After(last.v).size_ = Before(last.w).size_
             /\ Elems(After(last.v)) = Elems(Before(last.w))
             /\ After(last.w) = Before(last.w)
    /\ (Called("CopyAssign", "ok") /\ last.v = last.w) => vecs = pre

\* a = b has just succeeded with b non-empty and a different from b before
C5_Witness ==
    /\ Called("CopyAssign", "ok")
    /\ last.v # last.w
    /\ Before(last.w).size_ > 0
    /\ Elems(Before(last.v)) # Elems(Before(last.w))
    /\ Before(last.v).size_ > 0

\* ------------------------------------------------------------------ C6
\* C6: after move construction of d from s, d's logical sequence is s's
\* logical sequence before the move and s is empty with size 0 and
\* capacity 0, owning no buffer; a PushBack onto such a container succeeds
\* with size 1 <= capacity and the pushed value as its only element.
C6_MoveCtorSequence ==
    /\ Called("MoveCtor", "ok")
          => /\ Elems(After(last.v)) = Elems(Before(last.w))
             /\ After(last.w).live
             /\ After(last.w).size_ = 0
             /\ After(last.w).capacity_ = 0
             /\ After(last.w).alloc = 0
    /\ (Called("PushBack", "ok") /\ Before(last.v) = MovedFromVec)
          => /\ After(last.v).size_ = 1
             /\ After(last.v).size_ <= After(last.v).capacity_
             /\ Elems(After(last.v)) = <<last.x>>

\* a container with elements and spare capacity has just been moved from
C6_Witness ==
    /\ Called("MoveCtor", "ok")
    /\ Before(last.w).size_ > 1
    /\ Before(last.w).size_ < Before(last.w).capacity_

\* ------------------------------------------------------------------ C7
\* C7: the move-constructed container has the source's prior size and the
\* source's prior capacity.
C7_MoveCtorCopiesCapacity ==
    Called("MoveCtor", "ok")
        => /\ After(last.v).size_ = Before(last.w).size_
           /\ After(last.v).capacity_ = Before(last.w).capacity_

\* ------------------------------------------------------------------ C8
\* C8: after d = move(s) with d and s distinct, d has s's prior size,
\* capacity and logical sequence and s has size 0 and capacity 0; moving a
\* container to itself changes nothing.
C8_MoveAssign ==
    /\ (Called("MoveAssign", "ok") /\ last.v # last.w)
          => /\ SameVisible(After(last.v), Before(last.w))
             /\ After(last.w).size_ = 0
             /\ After(last.w).capacity_ = 0
    /\ (Called("MoveAssign", "ok") /\ last.v = last.w) => vecs = pre

\* a container with elements and spare capacity has just been move-assigned
\* to a non-empty one
C8_Witness ==
    /\ Called("MoveAssign", "ok")
    /\ last.v # last.w
    /\ Before(last.w).size_ > 0
    /\ Before(last.w).size_ < Before(last.w).capacity_
    /\ Before(last.v).size_ > 0

\* ------------------------------------------------------------------ C9
\* C9: after Resize(n): size = n, capacity >= n, the elements below
\* min(old size, n) are unchanged and the elements at [old size, n) are
\* Type(), whatever those cells held before.
C9_Resize ==
    Called("Resize", "ok")
        => LET a == After(last.v)
               b == Before(last.v)
           IN  /\ a.size_ = last.n
               /\ a.capacity_ >= last.n
               /\ \A i \in 1..Min(b.size_, last.n) : a.items_[i] = b.items_[i]
               /\ \A i \in (b.size_ + 1)..last.n : a.items_[i] = DefaultOf(elem)

\* Resize has just grown a container in place over a cell that held a
\* value other than Type(), keeping an element
C9_Witness ==
    /\ Called("Resize", "ok")
    /\ Before(last.v).size_ > 0
    /\ Before(last.v).size_ < last.n
    /\ last.n <= Before(last.v).capacity_
    /\ Before(last.v).items_[last.n] # DefaultOf(elem)

\* ----------------------------------------------------------------- C10
\* C10: Reserve(c) with c <= capacity changes nothing; with c > capacity it
\* makes the capacity exactly c and leaves size and logical sequence alone.
C10_Reserve ==
    Called("Reserve", "ok")
        => LET a == After(last.v)
               b == Before(last.v)
           IN  /\ a.capacity_ >= b.capacity_
               /\ last.n <= b.capacity_ => a = b
               /\ last.n > b.capacity_
                     => /\ a.capacity_ = last.n
                        /\ a.size_ = b.size_
                        /\ Elems(a) = Elems(b)

\* Reserve has just reallocated a container holding two different elements
C10_Witness ==
    /\ Called("Reserve", "ok")
    /\ last.n > Before(last.v).capacity_
    /\ Before(last.v).size_ = 2
    /\ Before(last.v).items_[1] # Before(last.v).items_[2]

\* C11: k values pushed one after the other onto an empty container, with
\* or without a Reserve before them, give size k with the i-th pushed value
\* at offset i; each PushBack adds one to the size and leaves the elements
\* stored before it as they were, and size never exceeds capacity.
C11_PushBackRun ==
    /\ run.active
          => /\ vecs[1].size_ = Len(run.pushed)
             /\ Elems(vecs[1]) = run.pushed
             /\ vecs[1].size_ <= vecs[1].capacity_
    /\ Called("PushBack", "ok")
          => /\ After(1).size_ = Before(1).size_ + 1
             /\ \A i \in 1..Before(1).size_ :
                   After(1).items_[i] = Before(1).items_[i]
             /\ After(1).items_[After(1).size_] = last.x

\* three values pushed after Reserve(1): the second and the third PushBack
\* reallocated, and the values pushed differ
C11_Witness ==
    /\ Called("PushBack", "ok")
    /\ run.active
    /\ Len(run.pushed) = 3
    /\ run.pushed[1] # run.pushed[2]
    /\ run.reallocs = 2
    /\ Before(1).capacity_ = 2

\* C12: Insert(p, x) with p in [0, size] adds one to the size, puts x at
\* offset p, keeps the elements of [0, p) where they were and those of
\* [p, size) one offset higher in the same order, and returns offset p,
\* whether it works in place or reallocates.
C12_Insert ==
    Called("Insert", "ok")
        => LET a == After(last.v)
               b == Before(last.v)
               p == last.n
           IN  /\ a.size_ = b.size_ + 1
               /\ a.items_[p + 1] = last.x
               /\ \A i \in 1..p : a.items_[i] = b.items_[i]
               /\ \A i \in (p + 1)..b.size_ : a.items_[i + 1] = b.items_[i]
               /\ last.ret = p

\* an Insert in place in front of two different elements
C12_Witness ==
    /\ Called("Insert", "ok")
    /\ last.n = 0
    /\ Before(last.v).size_ = 2
    /\ Before(last.v).size_ < Before(last.v).capacity_
    /\ Before(last.v).items_[1] # Before(last.v).items_[2]
    /\ After(last.v).capacity_ = Before(last.v).capacity_

\* C13: Erase(p) with p in [0, size) takes one from the size, removes the
\* element at offset p and no other, keeps the order of the others, leaves
\* the capacity as it was, and returns offset p.
C13_Erase ==
    Called("Erase", "ok")
        => LET a == After(last.v)
               b == Before(last.v)
               p == last.n
           IN  /\ a.size_ = b.size_ - 1
               /\ \A i \in 1..p : a.items_[i] = b.items_[i]
               /\ \A i \in (p + 1)..a.size_ : a.items_[i] = b.items_[i + 1]
               /\ a.capacity_ = b.capacity_
               /\ last.ret = p

\* an Erase of the first of three elements, the remaining two different
C13_Witness ==
    /\ Called("Erase", "ok")
    /\ last.n = 0
    /\ Before(last.v).size_ = 3
    /\ Before(last.v).items_[2] # Before(last.v).items_[3]
    /\ Before(last.v).items_[1] # Before(last.v).items_[2]

\* C14: SimpleVector<T>(n), for every n and every element type including
\* the move-only X, gives size = capacity = n and every element equal to
\* T().
C14_SizedCtorDefaults ==
    Called("SizedCtor", "ok")
        => LET a == After(last.v)
           IN  /\ a.size_ = last.n
               /\ a.capacity_ = last.n
               /\ \A i \in 1..last.n : a.items_[i] = DefaultOf(elem)

C16_At ==
    last.op = "At"
        => /\ (last.res = "out_of_range") <=> (last.n >= Before(last.v).size_)
           /\ vecs = pre
           /\ last.res = "ok" => last.ret = Subscript(After(last.v), last.n)

\* At refused an index between size and capacity
C16_Witness ==
    /\ Called("At", "out_of_range")
    /\ Before(last.v).size_ > 0
    /\ last.n >= Before(last.v).size_
    /\ last.n < Before(last.v).capacity_

\* C17: operator== is true exactly when the two containers have the same
\* size and equal elements at every offset below it, whatever their
\* capacities and the cells behind the size hold; operator!= is its
\* negation.
C17_Equality ==
    last.op = "Compare"
        => LET a == Before(last.v)
               b == Before(last.w)
           IN  /\ ("==" \in last.cmp)
                     <=> /\ a.size_ = b.size_
                         /\ \A i \in 1..a.size_ : a.items_[i] = b.items_[i]
               /\ ("!=" \in last.cmp) <=> ("==" \notin last.cmp)

\* two different containers with one equal element and different capacities
\* compared equal
C17_Witness ==
    /\ last.op = "Compare"
    /\ last.v # last.w
    /\ "==" \in last.cmp
    /\ Before(last.v).size_ = 1
    /\ Before(last.v).capacity_ # Before(last.w).capacity_

\* s is before t in lexicographic order: they agree on the first k elements
\* and then s ends while t goes on, or s has the smaller element
LexLess(s, t) ==
    \E k \in 0..Min(Len(s), Len(t)) :
        /\ SubSeq(s, 1, k) = SubSeq(t, 1, k)
        /\ \/ k = Len(s) /\ k < Len(t)
           \/ k < Len(s) /\ k < Len(t) /\ s[k + 1] < t[k + 1]

\* C18: operator< is the lexicographic order of the element sequences, a
\* proper prefix being smaller; a <= b iff a < b or a == b; a > b iff
\* b < a; a >= b iff not a < b; exactly one of a < b, a == b, a > b holds.
C18_Ordering ==
    last.op = "Compare"
        => LET a == Elems(Before(last.v))
               b == Elems(Before(last.w))
               c == last.cmp
           IN  /\ ("<" \in c) <=> LexLess(a, b)
               /\ ("<=" \in c) <=> ("<" \in c \/ "==" \in c)
               /\ (">" \in c) <=> LexLess(b, a)
               /\ (">=" \in c) <=> ("<" \notin c)
               /\ Cardinality(c \cap {"<", "==", ">"}) = 1

\* a container compared with a longer one that starts with its elements
C18_Witness ==
    /\ last.op = "Compare"
    /\ "<" \in last.cmp
    /\ Before(last.v).size_ = 1
    /\ Before(last.w).size_ = 2
    /\ Before(last.v).items_[1] = Before(last.w).items_[1]

\* C19: PopBack on a container that is not empty takes one from the size
\* and leaves the capacity and the elements below the new size as they
\* were; on an empty container it changes nothing.
C19_PopBack ==
    last.op = "PopBack"
        => LET a == After(last.v)
               b == Before(last.v)
           IN  IF b.size_ > 0
               THEN /\ a.size_ = b.size_ - 1
                    /\ a.capacity_ = b.capacity_
                    /\ \A i \in 1..a.size_ : a.items_[i] = b.items_[i]
               ELSE a = b

\* PopBack on an empty container that owns a buffer
C19_Witness ==
    /\ last.op = "PopBack"
    /\ Before(last.v).size_ = 0
    /\ Before(last.v).capacity_ > 0

\* C20: over N PushBack calls onto an empty container the capacity at
\* least doubles whenever a call reallocates, so that the reallocations
\* number at most ceil(log2(N)) + 1 (2^(reallocs - 1) < 2N) and move at most
\* 2N elements in all.
C20_AmortizedAppend ==
    /\ (Called("PushBack", "ok") /\ After(1).capacity_ # Before(1).capacity_)
          => /\ After(1).capacity_ >= 2 * Before(1).capacity_
             /\ After(1).capacity_ > Before(1).capacity_
    /\ run.active
          => /\ run.transfers <= 2 * Len(run.pushed)
             /\ run.reallocs >= 1 => 2^(run.reallocs - 1) < 2 * Len(run.pushed)

\* five values pushed onto a default-constructed container: capacities
\* 1, 2, 4, 8, seven elements moved
C20_Witness ==
    /\ run.active
    /\ Len(run.pushed) = 5
    /\ run.reallocs = 4
    /\ run.transfers = 7
    /\ vecs[1].capacity_ = 8

\* C21: Resize(n) with n <= capacity leaves the capacity and the buffer as
\* they were; Resize(n) with n > capacity makes the capacity exactly
\* max(n, 2 * old capacity); PushBack on a full container of capacity c makes
\* it max(c + 1, 2c), and PushBack with size < capacity leaves it unchanged.
C21_ResizeCapacityPolicy ==
    /\ Called("Resize", "ok")
          => LET a == After(last.v)
                 b == Before(last.v)
             IN  IF last.n <= b.capacity_
                 THEN a.capacity_ = b.capacity_ /\ a.alloc = b.alloc
                 ELSE a.capacity_ = Max(last.n, 2 * b.capacity_)
    /\ Called("PushBack", "ok")
          => LET a == After(last.v)
                 b == Before(last.v)
             IN  IF b.size_ = b.capacity_
                 THEN a.capacity_ = Max(b.capacity_ + 1, 2 * b.capacity_)
                 ELSE a.capacity_ = b.capacity_ /\ a.alloc = b.alloc

\* a Resize past the capacity by less than the capacity: doubling decides
C21_Witness ==
    /\ Called("Resize", "ok")
    /\ Before(1).capacity_ = 4
    /\ last.n = 5
    /\ After(1).capacity_ = 8

\* C22: Insert into a container with size < capacity leaves the capacity as
\* it was; Insert into a container with size = capacity makes the capacity
\* exactly max(2 * old capacity, 1), so that a container of capacity 0 ends
\* with capacity 1 and size 1.
C22_InsertCapacityPolicy ==
    Called("Insert", "ok")
        => LET a == After(last.v)
               b == Before(last.v)
           IN  /\ IF b.size_ < b.capacity_
                  THEN a.capacity_ = b.capacity_ /\ a.alloc = b.alloc
                  ELSE a.capacity_ = Max(2 * b.capacity_, 1)
               /\ b.capacity_ = 0 => a.capacity_ = 1 /\ a.size_ = 1

\* an Insert between the two elements of a full container of capacity 2
C22_Witness ==
    /\ Called("Insert", "ok")
    /\ Before(1).size_ = 2
    /\ Before(1).capacity_ = 2
    /\ last.n = 1
    /\ After(1).capacity_ = 4

====
